---------------------------- MODULE Spec2Model ----------------------------
(***************************************************************************)
(* Model of kinematic_constraints/src/kinematic_constraint.cpp:            *)
(* JointConstraint, PositionConstraint, OrientationConstraint,             *)
(* VisibilityConstraint, KinematicConstraintSet and mergeConstraints.      *)
(*                                                                         *)
(* Numbers are fixed point.  Angles are counted in steps of                *)
(* pi / (2 * AngleRes); weights, radii and squared lengths are counted in  *)
(* multiples of std::numeric_limits<double>::epsilon().  All inputs are    *)
(* finite numbers (no NaN, no infinity).                                   *)
(***************************************************************************)
EXTENDS Integers, Sequences, FiniteSets, TLC

VARIABLES
    kc,     \* the constraint object the caller holds
    last,   \* the last use() or clear() call made on kc and what it returned
    ret,    \* the call that has just returned: its argument and result
    kce_,   \* KinematicConstraintSet: the constraints held, in order
    jc_,    \* KinematicConstraintSet: the joint specifications added
    pc_,    \* KinematicConstraintSet: the position specifications added
    oc_,    \* KinematicConstraintSet: the orientation specifications added
    vc_,    \* KinematicConstraintSet: the visibility specifications added
    first,  \* mergeConstraints: the caller's first Constraints message
    second, \* mergeConstraints: the caller's second Constraints message
    thr     \* the threads inside VisibilityConstraint::decide on the shared object kc

objVars == <<kc, last>>

setVars == <<kce_, jc_, pc_, oc_, vc_>>

mergeVars == <<first, second>>

vars == <<kc, last, ret, kce_, jc_, pc_, oc_, vc_, first, second, thr>>

(***************************************************************************)
(* Bounds and program constants                                            *)
(***************************************************************************)
\* angle steps per quarter turn
AngleRes == 2

\* the largest cone_sides of a visibility specification
MaxSides == 5

\* std::numeric_limits<double>::epsilon(), the unit of weights and radii
EPSILON == 1

SIMD_HALF_PI == AngleRes
SIMD_PI == 2 * AngleRes
SIMD_2_PI == 4 * AngleRes

NULL == [null |-> TRUE]

Abs(x) == IF x < 0 THEN -x ELSE x

\* C fmod: the remainder has the sign of the dividend
Fmod(a, m) == IF a >= 0 THEN a % m ELSE -((-a) % m)

\* Bullet's btNormalizeAngle: fmod by 2 pi, then one turn back into [-pi, pi]
btNormalizeAngle(a) ==
    LET r == Fmod(a, SIMD_2_PI)
    IN  IF r < -SIMD_PI THEN r + SIMD_2_PI
        ELSE IF r > SIMD_PI THEN r - SIMD_2_PI
        ELSE r

(***************************************************************************)
(* The kinematic model (model_): its joints and links by name              *)
(***************************************************************************)
JointModels ==
    { [name |-> "j_cont",   revolute |-> TRUE,  continuous |-> TRUE,  variableCount |-> 1],
      [name |-> "j_rev",    revolute |-> TRUE,  continuous |-> FALSE, variableCount |-> 1],
      [name |-> "j_fixed",  revolute |-> FALSE, continuous |-> FALSE, variableCount |-> 0],
      [name |-> "j_planar", revolute |-> FALSE, continuous |-> FALSE, variableCount |-> 3] }

getJointModel(name) ==
    IF \E j \in JointModels : j.name = name
    THEN CHOOSE j \in JointModels : j.name = name
    ELSE NULL

\* the links of the model
LinkModels == { [name |-> "link_a"] }

getLinkModel(name) ==
    IF \E l \in LinkModels : l.name = name
    THEN CHOOSE l \in LinkModels : l.name = name
    ELSE NULL

(***************************************************************************)
(* Vectors, rotation matrices and transforms (btVector3, btMatrix3x3,      *)
(* btTransform) over the integers                                          *)
(***************************************************************************)
Dot(u, v) == u[1] * v[1] + u[2] * v[2] + u[3] * v[3]

VecAdd(u, v) == <<u[1] + v[1], u[2] + v[2], u[3] + v[3]>>

VecSub(u, v) == <<u[1] - v[1], u[2] - v[2], u[3] - v[3]>>

length2(v) == Dot(v, v)

getColumn(m, j) == <<m[1][j], m[2][j], m[3][j]>>

MatVec(m, v) == <<Dot(m[1], v), Dot(m[2], v), Dot(m[3], v)>>

MatMul(a, b) ==
    << <<Dot(a[1], getColumn(b, 1)), Dot(a[1], getColumn(b, 2)), Dot(a[1], getColumn(b, 3))>>,
       <<Dot(a[2], getColumn(b, 1)), Dot(a[2], getColumn(b, 2)), Dot(a[2], getColumn(b, 3))>>,
       <<Dot(a[3], getColumn(b, 1)), Dot(a[3], getColumn(b, 2)), Dot(a[3], getColumn(b, 3))>> >>

\* btMatrix3x3::inverse of a rotation matrix: its transpose
MatInverse(m) == <<getColumn(m, 1), getColumn(m, 2), getColumn(m, 3)>>

RotI    == << << 1, 0, 0>>, <<0,  1, 0>>, << 0, 0,  1>> >>
RotZ90  == << << 0, -1, 0>>, <<1, 0, 0>>, << 0, 0,  1>> >>
RotY90  == << << 0, 0, 1>>, <<0,  1, 0>>, <<-1, 0,  0>> >>
RotX90  == << << 1, 0, 0>>, <<0,  0, -1>>, << 0, 1,  0>> >>
RotX180 == << << 1, 0, 0>>, <<0, -1, 0>>, << 0, 0, -1>> >>

Origin == <<0, 0, 0>>

Identity == [o |-> Origin, b |-> RotI]

\* btTransform applied to a point
Apply(t, p) == VecAdd(MatVec(t.b, p), t.o)

\* btTransform product
Compose(t, u) == [o |-> Apply(t, u.o), b |-> MatMul(t.b, u.b)]

\* floor of the square root
Sqrt(n) == CHOOSE k \in 0 .. n : k * k <= n /\ (k + 1) * (k + 1) > n

\* atan2 of the entries of a signed permutation matrix
Atan2(y, x) ==
    CASE y = 0 /\ x >= 0 -> 0
      [] y = 0 /\ x < 0  -> SIMD_PI
      [] y > 0 /\ x = 0  -> SIMD_HALF_PI
      [] y < 0 /\ x = 0  -> -SIMD_HALF_PI

Asin(x) ==
    CASE x = 0  -> 0
      [] x = 1  -> SIMD_HALF_PI
      [] x = -1 -> -SIMD_HALF_PI

\* btMatrix3x3::getEulerYPR, <<yaw, pitch, roll>>
getEulerYPR(m) ==
    LET yaw   == Atan2(m[2][1], m[1][1])
        pitch == Asin(-m[3][1])
        roll  == Atan2(m[3][2], m[3][3])
    IN  IF Abs(pitch) = SIMD_HALF_PI
        THEN << IF yaw > 0 THEN yaw - SIMD_PI ELSE yaw + SIMD_PI,
                pitch,
                IF roll > 0 THEN roll - SIMD_PI ELSE roll + SIMD_PI >>
        ELSE <<yaw, pitch, roll>>

(***************************************************************************)
(* The transform provider (tf_): "world" is the planning frame, "table" a  *)
(* fixed frame, "hand" a frame that moves with the state                   *)
(***************************************************************************)
getPlanningFrame == "world"

isFixedFrame(frame) == frame \in {"world", "table"}

FixedFrameTransform(frame) ==
    IF frame = "table" THEN [o |-> <<1, 0, 0>>, b |-> RotX180] ELSE Identity

\* Transforms::getTransformToTargetFrame(state, frame)
getTransformToTargetFrame(state, frame) ==
    IF isFixedFrame(frame) THEN FixedFrameTransform(frame) ELSE state.frames[frame]

\* Transforms::transformTransform(t, t, frame) for a fixed frame
transformTransform(t, frame) == Compose(FixedFrameTransform(frame), t)

\* Transforms::transformTransform(state, out, t, frame)
transformTransformAt(state, t, frame) == Compose(getTransformToTargetFrame(state, frame), t)

\* Transforms::transformQuaternion(q, q, frame), the rotation as a matrix
transformQuaternion(q, frame) == MatMul(FixedFrameTransform(frame).b, q)

\* Transforms::transformMatrix(state, out, m, frame)
transformMatrix(state, m, frame) == MatMul(getTransformToTargetFrame(state, frame).b, m)

\* planning_models::quatFromMsg: <<ok, rotation>>, the identity for a malformed one
quatFromMsg(q) ==
    CASE q = "identity" -> <<TRUE, RotI>>
      [] q = "z90"      -> <<TRUE, RotZ90>>
      [] q = "y90"      -> <<TRUE, RotY90>>
      [] q = "x90"      -> <<TRUE, RotX90>>
      [] OTHER          -> <<FALSE, RotI>>

\* planning_models::poseFromMsg: <<ok, transform>>
poseFromMsg(pose) ==
    LET q == quatFromMsg(pose.orientation)
    IN  <<q[1], [o |-> pose.position, b |-> q[2]]>>

(***************************************************************************)
(* Inputs                                                                  *)
(***************************************************************************)
\* current joint values of the states
Angles == (-SIMD_2_PI) .. SIMD_2_PI

\* target positions of the specifications, inside and outside [-pi, pi]
Targets == {-(SIMD_PI + 1), 1 - SIMD_PI, 0, 1, SIMD_PI - 1, SIMD_PI}

\* <<tolerance_above, tolerance_below>>
TolerancePairs == {<<0, 0>>, <<1, 0>>, <<0, 1>>, <<AngleRes + 1, 1>>, <<1, AngleRes + 1>>}

LinkWeights == {0, 3}

JointConstraintMsgs ==
    { [joint_name |-> n, position |-> p, tolerance_above |-> t[1],
       tolerance_below |-> t[2], weight |-> w] :
         n \in {"j_cont", "j_rev", "j_fixed", "j_planar", "j_none"},
         p \in Targets, t \in TolerancePairs, w \in {-1, EPSILON, 2} }

\* KinematicStates: the joints and links a state holds, with the joint values, the
\* global link transforms and the transform of the moving frame "hand"
DefaultFrames == [n \in {"hand"} |-> Identity]

JointStates ==
    { [joints |-> [n \in {"j_cont", "j_rev"} |-> q], links |-> [n \in {"link_a"} |-> Identity],
       frames |-> DefaultFrames] : q \in Angles }

LinkOrigins == {Origin, <<1, 0, 0>>, <<2, 0, 0>>}

LinkRotations == {RotI, RotZ90, RotY90}

HandTransforms == {Identity, [o |-> <<1, 0, 0>>, b |-> RotZ90]}

LinkStates ==
    { [joints |-> [n \in {"j_cont", "j_rev"} |-> 0],
       links |-> [n \in {"link_a"} |-> [o |-> p, b |-> r]],
       frames |-> [n \in {"hand"} |-> h]] :
         p \in LinkOrigins, r \in LinkRotations, h \in HandTransforms }

\* a state of another model: it holds neither the joints nor the links named above
ForeignState ==
    [joints |-> [n \in {"j_other"} |-> 0], links |-> [n \in {"l_other"} |-> Identity],
     frames |-> DefaultFrames]

States == JointStates \cup LinkStates \cup {ForeignState}

getJointState(state, name) ==
    IF name \in DOMAIN state.joints THEN [name |-> name, value |-> state.joints[name]]
    ELSE NULL

getLinkState(state, name) ==
    IF name \in DOMAIN state.links
    THEN [name |-> name, global_link_transform |-> state.links[name]]
    ELSE NULL

LinkNames == {"link_a", "l_none"}

FrameIds == {"table", "hand"}

Shapes ==
    { [type |-> "sphere", dims |-> <<2>>], [type |-> "box", dims |-> <<2, 4, 2>>],
      [type |-> "unknown", dims |-> <<>>] }

PositionConstraintMsgs ==
    [link_name : LinkNames, target_point_offset : {Origin, <<1, 0, 0>>},
     constraint_region_shape : Shapes,
     constraint_region_pose :
         [frame_id : FrameIds,
          pose : [position : {Origin, <<2, 0, 0>>}, orientation : {"z90", "bad"}]],
     weight : LinkWeights]

\* <<yaw, pitch, roll>> tolerances
OrientationTolerances ==
    { <<0, 0, 0>>, <<AngleRes + 1, -(AngleRes + 1), AngleRes + 1>>,
      <<-(AngleRes + 1), AngleRes + 1, 0>>, <<0, 1, -(AngleRes + 1)>> }

OrientationConstraintMsgs ==
    { [link_name |-> n, orientation |-> [frame_id |-> f, quaternion |-> q],
       absolute_yaw_tolerance |-> t[1], absolute_pitch_tolerance |-> t[2],
       absolute_roll_tolerance |-> t[3], weight |-> w] :
         n \in LinkNames, f \in FrameIds, q \in {"identity", "z90", "y90", "bad"},
         t \in OrientationTolerances, w \in LinkWeights }

\* <<target_radius, cone_sides, weight>>
DiscInputs == {<<-2, 2, 0>>, <<EPSILON, 4, 3>>, <<2, MaxSides, 3>>}

VisibilityConstraintMsgs ==
    { [target_radius |-> d[1], cone_sides |-> d[2], weight |-> d[3],
       target_pose |-> [frame_id |-> f[1],
                        pose |-> [position |-> tp, orientation |-> q]],
       sensor_pose |-> [frame_id |-> f[2],
                        pose |-> [position |-> Origin, orientation |-> "identity"]],
       max_view_angle |-> a] :
         d \in DiscInputs,
         f \in {<<"table", "table">>, <<"table", "hand">>, <<"hand", "table">>},
         tp \in {<<2, 0, 0>>},
         q \in {"y90", "bad"}, a \in {-1, 0, 1} }

(***************************************************************************)
(* KinematicConstraint, JointConstraint                                    *)
(***************************************************************************)
\* KinematicConstraint::KinematicConstraint: the weight starts at epsilon
KinematicConstraint == [constraint_weight_ |-> EPSILON]

\* a JointConstraint as constructed; use() assigns joint_model_ before any read,
\* the other fields are not read while joint_model_ is NULL
NewJointConstraint ==
    [kind |-> "joint", joint_model_ |-> NULL, joint_is_continuous_ |-> FALSE,
     joint_position_ |-> 0, joint_tolerance_above_ |-> 0, joint_tolerance_below_ |-> 0,
     constraint_weight_ |-> KinematicConstraint.constraint_weight_]

JointUse(c, jc) ==
    LET jm == getJointModel(jc.joint_name)
    IN  IF jm = NULL
        THEN [c EXCEPT !.joint_model_ = NULL, !.joint_is_continuous_ = FALSE]
        ELSE LET cont == jm.revolute /\ jm.continuous
             IN  [c EXCEPT
                    !.joint_model_ = IF jm.variableCount = 0 \/ jm.variableCount > 1
                                     THEN NULL ELSE jm,
                    !.joint_is_continuous_ = cont,
                    !.joint_position_ = IF cont THEN btNormalizeAngle(jc.position)
                                        ELSE jc.position,
                    !.joint_tolerance_above_ = jc.tolerance_above,
                    !.joint_tolerance_below_ = jc.tolerance_below,
                    !.constraint_weight_ = IF jc.weight <= EPSILON
                                           THEN c.constraint_weight_ ELSE jc.weight]

JointEnabled(c) == c.joint_model_ # NULL

JointClear_Keep(c) == c

JointClear(c) == [c EXCEPT !.joint_model_ = NULL]

\* the signed distance computed by JointConstraint::decide (lines 107-125)
JointDif(c, current_joint_position) ==
    IF c.joint_is_continuous_
    THEN LET d0 == btNormalizeAngle(current_joint_position) - c.joint_position_
             d1 == IF d0 > SIMD_PI THEN SIMD_2_PI - d0
                   ELSE IF d0 < -SIMD_PI THEN d0 + SIMD_2_PI
                   ELSE d0
         IN  IF current_joint_position < c.joint_position_ THEN -d1 ELSE d1
    ELSE current_joint_position - c.joint_position_

JointDecide_AbsentPasses(c, state) ==
    IF c.joint_model_ = NULL THEN <<TRUE, 0>>
    ELSE LET joint == getJointState(state, c.joint_model_.name)
         IN  IF joint = NULL THEN <<TRUE, 0>>
             ELSE LET dif == JointDif(c, joint.value)
                      result == dif <= c.joint_tolerance_above_
                                /\ dif >= -c.joint_tolerance_below_
                  IN  <<result, c.constraint_weight_ * Abs(dif)>>

JointDecide(c, state) ==
    IF c.joint_model_ = NULL THEN <<TRUE, 0>>
    ELSE LET joint == getJointState(state, c.joint_model_.name)
         IN  IF joint = NULL THEN <<FALSE, 0>>
             ELSE LET dif == JointDif(c, joint.value)
                      result == dif <= c.joint_tolerance_above_
                                /\ dif >= -c.joint_tolerance_below_
                  IN  <<result, c.constraint_weight_ * Abs(dif)>>

(***************************************************************************)
(* PositionConstraint                                                      *)
(***************************************************************************)
\* shapes::constructShapeFromMsg: NULL for a shape that cannot be built
constructShapeFromMsg(shape_msg) ==
    IF shape_msg.type \in {"sphere", "box"} THEN shape_msg ELSE NULL

\* bodies::createBodyFromShape: the body at the identity pose
createBodyFromShape(shape) == [type |-> shape.type, dims |-> shape.dims, pose |-> Identity]

setPose(body, pose) == [body EXCEPT !.pose = pose]

cloneAt(body, pose) == [body EXCEPT !.pose = pose]

\* bodies::Body::containsPoint; the dimensions of a box are its full side lengths
containsPoint(body, p) ==
    LET v == VecSub(p, body.pose.o)
    IN  IF body.type = "sphere"
        THEN length2(v) < body.dims[1] * body.dims[1]
        ELSE \A k \in 1 .. 3 : 2 * Abs(Dot(v, getColumn(body.pose.b, k))) <= body.dims[k]

NewPositionConstraint ==
    [kind |-> "position", link_model_ |-> NULL, offset_ |-> Origin, has_offset_ |-> FALSE,
     constraint_region_ |-> NULL, constraint_region_pose_ |-> Identity,
     constraint_frame_id_ |-> "", mobile_frame_ |-> FALSE,
     constraint_weight_ |-> KinematicConstraint.constraint_weight_]

PositionUse(c, pc) ==
    LET lm     == getLinkModel(pc.link_name)
        shape  == constructShapeFromMsg(pc.constraint_region_shape)
        region == IF shape # NULL THEN createBodyFromShape(shape) ELSE c.constraint_region_
        c1 == [c EXCEPT !.link_model_ = lm,
                        !.offset_ = pc.target_point_offset,
                        !.has_offset_ = length2(pc.target_point_offset) > EPSILON,
                        !.constraint_region_ = region]
        frame == pc.constraint_region_pose.frame_id
        pose  == poseFromMsg(pc.constraint_region_pose.pose)[2]
        w     == IF pc.weight <= EPSILON THEN c.constraint_weight_ ELSE pc.weight
    IN  IF lm # NULL /\ region # NULL
        THEN IF isFixedFrame(frame)
             THEN [c1 EXCEPT !.constraint_region_pose_ = transformTransform(pose, frame),
                             !.constraint_frame_id_ = getPlanningFrame,
                             !.constraint_region_ =
                                 setPose(region, transformTransform(pose, frame)),
                             !.mobile_frame_ = FALSE,
                             !.constraint_weight_ = w]
             ELSE [c1 EXCEPT !.constraint_region_pose_ = pose,
                             !.constraint_frame_id_ = frame,
                             !.mobile_frame_ = TRUE,
                             !.constraint_weight_ = w]
        ELSE c1

PositionEnabled(c) == c.link_model_ # NULL /\ c.constraint_region_ # NULL

PositionClear(c) == [c EXCEPT !.link_model_ = NULL, !.constraint_region_ = NULL]

finishPositionConstraintDecision(pt, desired, weight, result) ==
    LET dx == desired[1] - pt[1]
        dy == desired[2] - pt[2]
        dz == desired[3] - pt[3]
    IN  <<result, weight * Sqrt(dx * dx + dy * dy + dz * dz)>>

PositionDecide(c, state) ==
    IF c.link_model_ = NULL \/ c.constraint_region_ = NULL THEN <<TRUE, 0>>
    ELSE LET link_state == getLinkState(state, c.link_model_.name)
         IN  IF link_state = NULL THEN <<FALSE, 0>>
             ELSE LET pt == Apply(link_state.global_link_transform, c.offset_)
                  IN  IF c.mobile_frame_
                      THEN LET tmp == transformTransformAt(state, c.constraint_region_pose_,
                                                           c.constraint_frame_id_)
                               result == containsPoint(cloneAt(c.constraint_region_, tmp), pt)
                           IN  finishPositionConstraintDecision(pt, tmp.o,
                                   c.constraint_weight_, result)
                      ELSE finishPositionConstraintDecision(pt, c.constraint_region_.pose.o,
                               c.constraint_weight_, containsPoint(c.constraint_region_, pt))

(***************************************************************************)
(* OrientationConstraint                                                   *)
(***************************************************************************)
NewOrientationConstraint ==
    [kind |-> "orientation", link_model_ |-> NULL, desired_rotation_matrix_ |-> RotI,
     desired_rotation_matrix_inv_ |-> RotI, desired_rotation_frame_id_ |-> "",
     mobile_frame_ |-> FALSE, absolute_yaw_tolerance_ |-> 0,
     absolute_pitch_tolerance_ |-> 0, absolute_roll_tolerance_ |-> 0,
     constraint_weight_ |-> KinematicConstraint.constraint_weight_]

OrientationUse(c, oc) ==
    LET q     == quatFromMsg(oc.orientation.quaternion)[2]
        frame == oc.orientation.frame_id
        c1 == [c EXCEPT
                 !.link_model_ = getLinkModel(oc.link_name),
                 !.constraint_weight_ = IF oc.weight <= EPSILON
                                        THEN c.constraint_weight_ ELSE oc.weight,
                 !.absolute_yaw_tolerance_ = Abs(oc.absolute_yaw_tolerance),
                 !.absolute_pitch_tolerance_ = Abs(oc.absolute_pitch_tolerance),
                 !.absolute_roll_tolerance_ = Abs(oc.absolute_roll_tolerance)]
    IN  IF isFixedFrame(frame)
        THEN [c1 EXCEPT !.desired_rotation_frame_id_ = getPlanningFrame,
                        !.desired_rotation_matrix_ = transformQuaternion(q, frame),
                        !.desired_rotation_matrix_inv_ =
                            MatInverse(transformQuaternion(q, frame)),
                        !.mobile_frame_ = FALSE]
        ELSE [c1 EXCEPT !.desired_rotation_frame_id_ = frame,
                        !.desired_rotation_matrix_ = q,
                        !.mobile_frame_ = TRUE]

OrientationEnabled(c) == c.link_model_ # NULL

OrientationClear(c) == [c EXCEPT !.link_model_ = NULL]

\* <<yaw, pitch, roll>> of the rotation between the desired and the actual orientation
OrientationError(c, state, link_state) ==
    IF c.mobile_frame_
    THEN LET tmp == transformMatrix(state, c.desired_rotation_matrix_,
                                    c.desired_rotation_frame_id_)
         IN  getEulerYPR(MatMul(MatInverse(tmp), link_state.global_link_transform.b))
    ELSE getEulerYPR(MatMul(c.desired_rotation_matrix_inv_,
                            link_state.global_link_transform.b))

OrientationWithin_Inclusive(c, ypr) ==
    /\ Abs(ypr[3]) <= c.absolute_roll_tolerance_
    /\ Abs(ypr[2]) <= c.absolute_pitch_tolerance_
    /\ Abs(ypr[1]) <= c.absolute_yaw_tolerance_

\* the comparison of OrientationConstraint::decide (line 353)
OrientationWithin(c, ypr) ==
    /\ Abs(ypr[3]) < c.absolute_roll_tolerance_
    /\ Abs(ypr[2]) < c.absolute_pitch_tolerance_
    /\ Abs(ypr[1]) < c.absolute_yaw_tolerance_

OrientationDecide(c, state) ==
    IF c.link_model_ = NULL THEN <<TRUE, 0>>
    ELSE LET link_state == getLinkState(state, c.link_model_.name)
         IN  IF link_state = NULL THEN <<FALSE, 0>>
             ELSE LET ypr == OrientationError(c, state, link_state)
                  IN  <<OrientationWithin(c, ypr),
                        c.constraint_weight_ * (Abs(ypr[3]) + Abs(ypr[2]) + Abs(ypr[1]))>>

(***************************************************************************)
(* The collision world and robot of a VisibilityConstraint (cw_, cr_)      *)
(***************************************************************************)
\* CollisionWorld::clearObjects
clearObjects(world) == <<>>

\* CollisionWorld::addObject(id, shape, pose)
addObject(world, id, shape) == Append(world, [id |-> id, shape |-> shape])

Cross(u, v) ==
    <<u[2] * v[3] - u[3] * v[2], u[3] * v[1] - u[1] * v[3], u[1] * v[2] - u[2] * v[1]>>

Min(a, b) == IF a < b THEN a ELSE b

\* the robot (the origin of link_a) lies inside the cone, between apex and base
RobotInside(mesh, state) ==
    /\ "link_a" \in DOMAIN state.links
    /\ LET p == state.links["link_a"].o
           u == VecSub(p, mesh.vertices[1])
           v == VecSub(mesh.vertices[2], mesh.vertices[1])
       IN  Cross(u, v) = Origin /\ 0 < Dot(u, v) /\ Dot(u, v) < Dot(v, v)

\* CollisionWorld::checkRobotCollision(req, res, robot, state): the robot against
\* the objects the world holds
checkRobotCollision(world, state) ==
    IF \E k \in 1 .. Len(world) : RobotInside(world[k].shape, state)
    THEN LET k == CHOOSE j \in 1 .. Len(world) : RobotInside(world[j].shape, state)
             p == state.links["link_a"].o
             m == world[k].shape
         IN  [collision |-> TRUE,
              depth |-> Sqrt(Min(length2(VecSub(p, m.vertices[1])),
                                 length2(VecSub(p, m.vertices[2]))))]
    ELSE [collision |-> FALSE, depth |-> 0]

(***************************************************************************)
(* VisibilityConstraint                                                    *)
(***************************************************************************)
\* the constructor creates cr_ and cw_; every other field is assigned by use()
NewVisibilityConstraint ==
    [kind |-> "visibility", target_radius_ |-> 0, cone_sides_ |-> 0, points_ |-> <<>>,
     target_pose_ |-> Identity, target_frame_id_ |-> "", mobile_target_frame_ |-> FALSE,
     sensor_pose_ |-> Identity, sensor_frame_id_ |-> "", mobile_sensor_frame_ |-> FALSE,
     max_view_angle_ |-> 0, cw_ |-> <<>>,
     constraint_weight_ |-> KinematicConstraint.constraint_weight_]

\* point i of n on the circle of radius r, (sin(a) r, cos(a) r, 0) with a = 2 pi i / n,
\* carried with the transform applied to it
DiscPoint(i, n, r) == [i |-> i, n |-> n, r |-> r, t |-> Identity]

ApplyToPoint(t, pt) == [pt EXCEPT !.t = Compose(t, pt.t)]

\* use() that stores the radius as given
VisibilityUse_SignedRadius(c, vc) ==
    LET radius == vc.target_radius
        sides  == IF vc.cone_sides < 3 THEN 3 ELSE vc.cone_sides
        points == [i \in 1 .. sides |-> DiscPoint(i - 1, sides, radius)]
        tframe == vc.target_pose.frame_id
        tpose  == poseFromMsg(vc.target_pose.pose)[2]
        tfixed == isFixedFrame(tframe)
        tpose2 == IF tfixed THEN transformTransform(tpose, tframe) ELSE tpose
        sframe == vc.sensor_pose.frame_id
        spose  == poseFromMsg(vc.sensor_pose.pose)[2]
        sfixed == isFixedFrame(sframe)
    IN  [c EXCEPT
           !.target_radius_ = radius,
           !.cone_sides_ = sides,
           !.points_ = IF tfixed
                       THEN [i \in 1 .. sides |-> ApplyToPoint(tpose2, points[i])]
                       ELSE points,
           !.target_pose_ = tpose2,
           !.target_frame_id_ = IF tfixed THEN getPlanningFrame ELSE tframe,
           !.mobile_target_frame_ = ~tfixed,
           !.sensor_pose_ = IF sfixed THEN transformTransform(spose, sframe) ELSE spose,
           !.sensor_frame_id_ = IF sfixed THEN getPlanningFrame ELSE sframe,
           !.mobile_sensor_frame_ = ~sfixed,
           !.constraint_weight_ = IF vc.weight <= EPSILON
                                  THEN c.constraint_weight_ ELSE vc.weight,
           !.max_view_angle_ = vc.max_view_angle]

\* VisibilityConstraint::use
VisibilityUse(c, vc) ==
    LET radius == Abs(vc.target_radius)
        sides  == IF vc.cone_sides < 3 THEN 3 ELSE vc.cone_sides
        points == [i \in 1 .. sides |-> DiscPoint(i - 1, sides, radius)]
        tframe == vc.target_pose.frame_id
        tpose  == poseFromMsg(vc.target_pose.pose)[2]
        tfixed == isFixedFrame(tframe)
        tpose2 == IF tfixed THEN transformTransform(tpose, tframe) ELSE tpose
        sframe == vc.sensor_pose.frame_id
        spose  == poseFromMsg(vc.sensor_pose.pose)[2]
        sfixed == isFixedFrame(sframe)
    IN  [c EXCEPT
           !.target_radius_ = radius,
           !.cone_sides_ = sides,
           !.points_ = IF tfixed
                       THEN [i \in 1 .. sides |-> ApplyToPoint(tpose2, points[i])]
                       ELSE points,
           !.target_pose_ = tpose2,
           !.target_frame_id_ = IF tfixed THEN getPlanningFrame ELSE tframe,
           !.mobile_target_frame_ = ~tfixed,
           !.sensor_pose_ = IF sfixed THEN transformTransform(spose, sframe) ELSE spose,
           !.sensor_frame_id_ = IF sfixed THEN getPlanningFrame ELSE sframe,
           !.mobile_sensor_frame_ = ~sfixed,
           !.constraint_weight_ = IF vc.weight <= EPSILON
                                  THEN c.constraint_weight_ ELSE vc.weight,
           !.max_view_angle_ = vc.max_view_angle]

VisibilityEnabled(c) == c.target_radius_ > EPSILON

VisibilityClear(c) == [c EXCEPT !.target_radius_ = -1]

SensorPose(c, state) ==
    IF c.mobile_sensor_frame_ THEN getTransformToTargetFrame(state, c.sensor_frame_id_)
    ELSE c.sensor_pose_

TargetPose(c, state) ==
    IF c.mobile_target_frame_ THEN getTransformToTargetFrame(state, c.target_frame_id_)
    ELSE c.target_pose_

\* a loop whose base triangles use the sensor origin
RECURSIVE ConeTriangleLoop_BaseAtApex(_, _, _)
ConeTriangleLoop_BaseAtApex(i, size, triangles) ==
    IF i < size
    THEN LET i3 == (i - 1) * 3
             i6 == size * 3 + i3
         IN  ConeTriangleLoop_BaseAtApex(i + 1, size,
                 [triangles EXCEPT ![i3 + 1] = i + 1, ![i3 + 2] = 0, ![i3 + 3] = i + 2,
                                   ![i6 + 1] = i + 1, ![i6 + 2] = 0, ![i6 + 3] = i + 2])
    ELSE triangles

\* the triangle index array written by getVisibilityCone (lines 511-533); slot j of
\* the array is element j + 1, and -1 marks a slot that was never written
RECURSIVE ConeTriangleLoop(_, _, _)
ConeTriangleLoop(i, size, triangles) ==
    IF i < size
    THEN LET i3 == (i - 1) * 3
             i6 == size * 3 + i3
         IN  ConeTriangleLoop(i + 1, size,
                 [triangles EXCEPT ![i3 + 1] = i + 1, ![i3 + 2] = 0, ![i3 + 3] = i + 2,
                                   ![i6 + 1] = i + 1, ![i6 + 2] = 1, ![i6 + 3] = i + 2])
    ELSE triangles

\* the slots of the triangle index array in the order getVisibilityCone writes them
\* (lines 511-533)
RECURSIVE ConeWriteLoop(_, _, _)
ConeWriteLoop(i, size, slots) ==
    IF i < size
    THEN LET i3 == (i - 1) * 3
             i6 == size * 3 + i3
         IN  ConeWriteLoop(i + 1, size,
                 slots \o <<i3, i3 + 1, i3 + 2, i6, i6 + 1, i6 + 2>>)
    ELSE slots

ConeWrites(size) ==
    LET p3 == size * 3
    IN  ConeWriteLoop(1, size, <<>>)
        \o <<p3 - 3, p3 - 2, p3 - 1, 2 * p3 - 3, 2 * p3 - 2, 2 * p3 - 1>>

ConeTriangles(size, triangle_count) ==
    LET p3 == size * 3
        t0 == ConeTriangleLoop(1, size, [j \in 1 .. triangle_count * 3 |-> -1])
    IN  [t0 EXCEPT ![p3 - 2] = size + 1, ![p3 - 1] = 0, ![p3] = 2,
                   ![2 * p3 - 2] = size + 1, ![2 * p3 - 1] = 1, ![2 * p3] = 2]

\* VisibilityConstraint::getVisibilityCone: vertex v of the mesh is element v + 1
getVisibilityCone(c, state) ==
    LET sp == SensorPose(c, state)
        tp == TargetPose(c, state)
        points == IF c.mobile_target_frame_
                  THEN [i \in 1 .. Len(c.points_) |-> ApplyToPoint(tp, c.points_[i])]
                  ELSE c.points_
    IN  [vertex_count |-> c.cone_sides_ + 2,
         vertices |-> <<sp.o, tp.o>> \o points,
         triangle_count |-> c.cone_sides_ * 2,
         triangles |-> ConeTriangles(Len(points), c.cone_sides_ * 2)]

\* acos(dir.dot(normal)) for the unit vector dir along v and a coordinate axis normal
Acos(v, normal) ==
    CASE Dot(v, normal) = 0 -> SIMD_HALF_PI
      [] Dot(v, normal) > 0 /\ Dot(v, normal) * Dot(v, normal) = length2(v) -> 0
      [] Dot(v, normal) < 0 /\ Dot(v, normal) * Dot(v, normal) = length2(v) -> SIMD_PI

\* max_view_angle_ < ang (lines 545-550); normalizing the zero vector gives NaN,
\* and a comparison with NaN is false
ViewAngleExceeded(c, state) ==
    LET v == VecSub(TargetPose(c, state).o, SensorPose(c, state).o)
        normal == getColumn(TargetPose(c, state).b, 3)
    IN  IF v = Origin THEN FALSE ELSE c.max_view_angle_ < Acos(v, normal)

ViewAngleCheckFails_NoGuard(c, state) == ViewAngleExceeded(c, state)

\* the view angle check (lines 543-556): TRUE when decide returns (false, 0) here
ViewAngleCheckFails(c, state) == c.max_view_angle_ > 0 /\ ViewAngleExceeded(c, state)

\* the pair returned for a collision result (line 580)
VisibilityResult(res) == IF res.collision THEN <<FALSE, res.depth>> ELSE <<TRUE, 0>>

DecideClearStep_Skip(c) == c

\* cw_->clearObjects() (line 563)
DecideClearStep(c) == [c EXCEPT !.cw_ = clearObjects(@)]

\* cw_->addObject("cone", m, identity) (line 564)
DecideAddStep(c, m) == [c EXCEPT !.cw_ = addObject(@, "cone", m)]

\* cw_->checkRobotCollision(req, res, *cr_, state) and the return (lines 567-580)
DecideCheckStep(c, state) == VisibilityResult(checkRobotCollision(c.cw_, state))

VisibilityDecide_NoClear(c, state) ==
    IF c.target_radius_ <= EPSILON THEN [c |-> c, out |-> <<TRUE, 0>>]
    ELSE IF ViewAngleCheckFails(c, state) THEN [c |-> c, out |-> <<FALSE, 0>>]
    ELSE LET c2 == DecideAddStep(c, getVisibilityCone(c, state))
         IN  [c |-> c2, out |-> DecideCheckStep(c2, state)]

\* VisibilityConstraint::decide: the constraint after the call and the pair returned
VisibilityDecide(c, state) ==
    IF c.target_radius_ <= EPSILON THEN [c |-> c, out |-> <<TRUE, 0>>]
    ELSE IF ViewAngleCheckFails(c, state) THEN [c |-> c, out |-> <<FALSE, 0>>]
    ELSE LET c2 == DecideAddStep(DecideClearStep(c), getVisibilityCone(c, state))
         IN  [c |-> c2, out |-> DecideCheckStep(c2, state)]

(***************************************************************************)
(* One constraint object and the calls made on it                          *)
(***************************************************************************)
NoObject == [kind |-> "none"]

Idle == [op |-> "idle"]

NoCall == [op |-> "none", out |-> FALSE]

ObjInit ==
    /\ kc = NoObject
    /\ last = NoCall
    /\ ret = Idle

\* the caller has taken the result of the last call and makes the next one
CallerReady == ret.op = "idle"

\* the caller takes what the last call returned
Return ==
    /\ ret.op # "idle"
    /\ ret' = Idle
    /\ UNCHANGED <<kc, last>>
    /\ UNCHANGED <<setVars, mergeVars, thr>>

\* the constraint is destroyed
Destroy ==
    /\ CallerReady
    /\ kc # NoObject
    /\ kc' = NoObject
    /\ last' = NoCall
    /\ UNCHANGED <<ret, setVars, mergeVars, thr>>

Kinds == {"joint", "position", "orientation", "visibility"}

Msgs(kind) ==
    CASE kind = "joint"       -> JointConstraintMsgs
      [] kind = "position"    -> PositionConstraintMsgs
      [] kind = "orientation" -> OrientationConstraintMsgs
      [] kind = "visibility"  -> VisibilityConstraintMsgs

\* new JointConstraint(model_, tf_), new PositionConstraint(model_, tf_), ...
Construct(kind) ==
    CASE kind = "joint"       -> NewJointConstraint
      [] kind = "position"    -> NewPositionConstraint
      [] kind = "orientation" -> NewOrientationConstraint
      [] kind = "visibility"  -> NewVisibilityConstraint

\* the virtual calls use, enabled, clear and decide
ConstraintUse(c, msg) ==
    CASE c.kind = "joint"       -> JointUse(c, msg)
      [] c.kind = "position"    -> PositionUse(c, msg)
      [] c.kind = "orientation" -> OrientationUse(c, msg)
      [] c.kind = "visibility"  -> VisibilityUse(c, msg)

ConstraintEnabled(c) ==
    CASE c.kind = "joint"       -> JointEnabled(c)
      [] c.kind = "position"    -> PositionEnabled(c)
      [] c.kind = "orientation" -> OrientationEnabled(c)
      [] c.kind = "visibility"  -> VisibilityEnabled(c)

ConstraintClear(c) ==
    CASE c.kind = "joint"       -> JointClear(c)
      [] c.kind = "position"    -> PositionClear(c)
      [] c.kind = "orientation" -> OrientationClear(c)
      [] c.kind = "visibility"  -> VisibilityClear(c)

\* the value use() returns, read from the fields it has just assigned
UseResult(c) ==
    CASE c.kind = "joint"       -> c.joint_model_ # NULL
      [] c.kind = "position"    -> c.link_model_ # NULL /\ c.constraint_region_ # NULL
      [] c.kind = "orientation" -> c.link_model_ # NULL
      [] c.kind = "visibility"  -> c.target_radius_ > EPSILON

\* decide: the constraint after the call and the pair returned
ConstraintDecide(c, state) ==
    CASE c.kind = "joint"       -> [c |-> c, out |-> JointDecide(c, state)]
      [] c.kind = "position"    -> [c |-> c, out |-> PositionDecide(c, state)]
      [] c.kind = "orientation" -> [c |-> c, out |-> OrientationDecide(c, state)]
      [] c.kind = "visibility"  -> VisibilityDecide(c, state)

\* ev = new K(model_, tf_); ev->use(msg)
New ==
    \E kind \in Kinds : \E msg \in Msgs(kind) :
        /\ CallerReady
        /\ kc = NoObject
        /\ kc' = ConstraintUse(Construct(kind), msg)
        /\ ret' = [op |-> "use", msg |-> msg, ok |-> UseResult(kc')]
        /\ last' = [op |-> "use", out |-> UseResult(kc')]
        /\ UNCHANGED <<setVars, mergeVars, thr>>

Use ==
    /\ CallerReady
    /\ kc # NoObject
    /\ \E msg \in Msgs(kc.kind) :
        /\ kc' = ConstraintUse(kc, msg)
        /\ ret' = [op |-> "use", msg |-> msg, ok |-> UseResult(kc')]
        /\ last' = [op |-> "use", out |-> UseResult(kc')]
        /\ UNCHANGED <<setVars, mergeVars, thr>>

Clear ==
    /\ CallerReady
    /\ kc # NoObject
    /\ kc' = ConstraintClear(kc)
    /\ ret' = [op |-> "clear"]
    /\ last' = [op |-> "clear", out |-> FALSE]
    /\ UNCHANGED <<setVars, mergeVars, thr>>

Decide ==
    /\ CallerReady
    /\ kc # NoObject
    /\ \E state \in States :
        LET d == ConstraintDecide(kc, state)
        IN  /\ kc' = d.c
            /\ ret' = [op |-> "decide", arg |-> state, out |-> d.out]
    /\ UNCHANGED <<last, setVars, mergeVars, thr>>

\* no set, no messages to merge, no thread
NoSet == kce_ = <<>> /\ jc_ = <<>> /\ pc_ = <<>> /\ oc_ = <<>> /\ vc_ = <<>>

EmptyConstraints ==
    [joint_constraints |-> <<>>, position_constraints |-> <<>>,
     orientation_constraints |-> <<>>, visibility_constraints |-> <<>>]

NoMerge == first = EmptyConstraints /\ second = EmptyConstraints

NoThreads == thr = <<>>

Init == ObjInit /\ NoSet /\ NoMerge /\ NoThreads

Next == Return \/ Destroy \/ New \/ Use \/ Clear \/ Decide

Spec == Init /\ [][Next]_vars

(***************************************************************************)
(* KinematicConstraintSet                                                  *)
(***************************************************************************)
\* the most constraints a set holds
MaxSet == 2

SetJointMsgs ==
    { [joint_name |-> "j_cont", position |-> SIMD_PI - 1, tolerance_above |-> 1,
       tolerance_below |-> 0, weight |-> 2],
      [joint_name |-> "j_rev", position |-> 0, tolerance_above |-> 0,
       tolerance_below |-> 0, weight |-> 2],
      [joint_name |-> "j_none", position |-> 0, tolerance_above |-> 1,
       tolerance_below |-> 0, weight |-> 2] }

SetPositionMsgs ==
    { [link_name |-> "link_a", target_point_offset |-> Origin,
       constraint_region_shape |-> [type |-> "sphere", dims |-> <<2>>],
       constraint_region_pose |->
           [frame_id |-> "table",
            pose |-> [position |-> <<2, 0, 0>>, orientation |-> "bad"]],
       weight |-> 3],
      [link_name |-> "link_a", target_point_offset |-> Origin,
       constraint_region_shape |-> [type |-> "unknown", dims |-> <<>>],
       constraint_region_pose |->
           [frame_id |-> "table",
            pose |-> [position |-> <<2, 0, 0>>, orientation |-> "bad"]],
       weight |-> 3] }

SetOrientationMsgs ==
    { [link_name |-> "link_a", orientation |-> [frame_id |-> "hand", quaternion |-> "z90"],
       absolute_yaw_tolerance |-> AngleRes + 1, absolute_pitch_tolerance |-> -(AngleRes + 1),
       absolute_roll_tolerance |-> AngleRes + 1, weight |-> 3],
      [link_name |-> "l_none", orientation |-> [frame_id |-> "hand", quaternion |-> "z90"],
       absolute_yaw_tolerance |-> 0, absolute_pitch_tolerance |-> 0,
       absolute_roll_tolerance |-> 0, weight |-> 3] }

SetVisibilityMsgs ==
    { [target_radius |-> r, cone_sides |-> 4, weight |-> 3,
       target_pose |-> [frame_id |-> "table",
                        pose |-> [position |-> <<2, 0, 0>>, orientation |-> "y90"]],
       sensor_pose |-> [frame_id |-> "hand",
                        pose |-> [position |-> Origin, orientation |-> "identity"]],
       max_view_angle |-> 0] : r \in {EPSILON, 2} }

SetMsgs(kind) ==
    CASE kind = "joint"       -> SetJointMsgs
      [] kind = "position"    -> SetPositionMsgs
      [] kind = "orientation" -> SetOrientationMsgs
      [] kind = "visibility"  -> SetVisibilityMsgs

\* lists of at most n elements of S
ListsUpTo(S, n) == UNION { [1 .. k -> S] : k \in 0 .. n }

\* a state that holds the links but none of the joints
NoJointsState ==
    [joints |-> [n \in {"j_other"} |-> 0],
     links |-> [n \in {"link_a"} |-> [o |-> <<2, 0, 0>>, b |-> RotI]],
     frames |-> DefaultFrames]

SetStates ==
    { s \in JointStates : s.joints["j_cont"] \in {0, SIMD_PI} }
    \cup { s \in LinkStates : /\ s.links["link_a"].b = RotZ90
                              /\ s.links["link_a"].o[1] = s.frames["hand"].o[1] + 1 }
    \cup { s \in LinkStates : /\ s.links["link_a"].b = RotI
                              /\ s.links["link_a"].o = <<1, 0, 0>>
                              /\ s.frames["hand"].o = <<1, 0, 0>> }
    \cup {ForeignState, NoJointsState}

\* the set as it stands
TheSet == [kce |-> kce_, jc |-> jc_, pc |-> pc_, oc |-> oc_, vc |-> vc_]

\* jc_.push_back, pc_.push_back, oc_.push_back, vc_.push_back
RecordSpec(set, kind, msg) ==
    CASE kind = "joint"       -> [set EXCEPT !.jc = Append(@, msg)]
      [] kind = "position"    -> [set EXCEPT !.pc = Append(@, msg)]
      [] kind = "orientation" -> [set EXCEPT !.oc = Append(@, msg)]
      [] kind = "visibility"  -> [set EXCEPT !.vc = Append(@, msg)]

\* a loop that does not keep a constraint whose use() failed
RECURSIVE AddLoop_DropFailed(_, _, _, _, _)
AddLoop_DropFailed(set, kind, list, i, result) ==
    IF i <= Len(list)
    THEN LET ev == ConstraintUse(Construct(kind), list[i])
             u  == UseResult(ev)
         IN  AddLoop_DropFailed(
                 IF u THEN RecordSpec([set EXCEPT !.kce = Append(@, ev)], kind, list[i])
                 ELSE set,
                 kind, list, i + 1, result /\ u)
    ELSE [set |-> set, result |-> result]

\* the loop of KinematicConstraintSet::add over a list of specifications of one
\* kind, from element i on: the set and the result when the loop ends
RECURSIVE AddLoop(_, _, _, _, _)
AddLoop(set, kind, list, i, result) ==
    IF i <= Len(list)
    THEN LET ev == ConstraintUse(Construct(kind), list[i])
             u  == UseResult(ev)
         IN  AddLoop(RecordSpec([set EXCEPT !.kce = Append(@, ev)], kind, list[i]),
                     kind, list, i + 1, result /\ u)
    ELSE [set |-> set, result |-> result]

\* KinematicConstraintSet::add(const std::vector<K> &)
SetAddList(set, kind, list) == AddLoop(set, kind, list, 1, TRUE)

\* KinematicConstraintSet::add(const moveit_msgs::Constraints &)
SetAddConstraints(set, c) ==
    LET j == SetAddList(set, "joint", c.joint_constraints)
        p == SetAddList(j.set, "position", c.position_constraints)
        o == SetAddList(p.set, "orientation", c.orientation_constraints)
        v == SetAddList(o.set, "visibility", c.visibility_constraints)
    IN  [set |-> v.set, result |-> j.result /\ p.result /\ o.result /\ v.result]

\* clear() that empties the constraints and keeps the records
SetClearAll_KeepRecords(set) == [set EXCEPT !.kce = <<>>]

\* KinematicConstraintSet::clear
SetClearAll(set) == [kce |-> <<>>, jc |-> <<>>, pc |-> <<>>, oc |-> <<>>, vc |-> <<>>]

\* a loop that stops at the first constraint that is not satisfied
RECURSIVE DecideLoop_ShortCircuit(_, _, _, _, _, _)
DecideLoop_ShortCircuit(kce, state, i, rs, result, d) ==
    IF i <= Len(kce) /\ result
    THEN LET r == ConstraintDecide(kce[i], state)
         IN  DecideLoop_ShortCircuit([kce EXCEPT ![i] = r.c], state, i + 1,
                 Append(rs, r.out), IF ~r.out[1] THEN FALSE ELSE result, d + r.out[2])
    ELSE [kce |-> kce,
          rs |-> rs \o [k \in 1 .. Len(kce) - Len(rs) |->
                            ConstraintDecide(kce[Len(rs) + k], state).out],
          out |-> <<result, d>>]

\* the loop of KinematicConstraintSet::decide from constraint i on: the
\* constraints after the calls, the pair r of every call, result and d
RECURSIVE DecideLoop(_, _, _, _, _, _)
DecideLoop(kce, state, i, rs, result, d) ==
    IF i <= Len(kce)
    THEN LET r == ConstraintDecide(kce[i], state)
         IN  DecideLoop([kce EXCEPT ![i] = r.c], state, i + 1, Append(rs, r.out),
                        IF ~r.out[1] THEN FALSE ELSE result, d + r.out[2])
    ELSE [kce |-> kce, rs |-> rs, out |-> <<result, d>>]

\* KinematicConstraintSet::decide
SetDecideAll(kce, state) == DecideLoop(kce, state, 1, <<>>, TRUE, 0)

\* the Constraints messages given to add: at most one specification of each kind
ConstraintsMsgs ==
    { [joint_constraints |-> j, position_constraints |-> p,
       orientation_constraints |-> o, visibility_constraints |-> v] :
         j \in ListsUpTo(SetJointMsgs, 1), p \in ListsUpTo(SetPositionMsgs, 1),
         o \in ListsUpTo(SetOrientationMsgs, 1), v \in ListsUpTo(SetVisibilityMsgs, 1) }

CountOf(c) ==
    Len(c.joint_constraints) + Len(c.position_constraints)
    + Len(c.orientation_constraints) + Len(c.visibility_constraints)

SetAssign(set) ==
    /\ kce_' = set.kce
    /\ jc_' = set.jc
    /\ pc_' = set.pc
    /\ oc_' = set.oc
    /\ vc_' = set.vc

SetInit ==
    /\ kc = NoObject
    /\ last = NoCall
    /\ ret = Idle
    /\ NoSet /\ NoMerge /\ NoThreads

SetReturn ==
    /\ ret.op # "idle"
    /\ ret' = Idle
    /\ UNCHANGED <<setVars, objVars, mergeVars, thr>>

AddList ==
    /\ CallerReady
    /\ \E kind \in Kinds : \E list \in ListsUpTo(SetMsgs(kind), MaxSet - Len(kce_)) :
        LET a == SetAddList(TheSet, kind, list)
        IN  /\ SetAssign(a.set)
            /\ ret' = [op |-> "addList", list |-> list, ok |-> a.result]
    /\ UNCHANGED <<objVars, mergeVars, thr>>

AddConstraints ==
    /\ CallerReady
    /\ \E c \in ConstraintsMsgs :
        /\ Len(kce_) + CountOf(c) <= MaxSet
        /\ LET a == SetAddConstraints(TheSet, c)
           IN  /\ SetAssign(a.set)
               /\ ret' = [op |-> "add", c |-> c, ok |-> a.result]
    /\ UNCHANGED <<objVars, mergeVars, thr>>

ClearSet ==
    /\ CallerReady
    /\ SetAssign(SetClearAll(TheSet))
    /\ ret' = [op |-> "clear"]
    /\ UNCHANGED <<objVars, mergeVars, thr>>

DecideSet ==
    /\ CallerReady
    /\ \E state \in SetStates :
        LET r == SetDecideAll(kce_, state)
        IN  /\ kce_' = r.kce
            /\ ret' = [op |-> "decide", arg |-> state, out |-> r.out, rs |-> r.rs]
    /\ UNCHANGED <<jc_, pc_, oc_, vc_, objVars, mergeVars, thr>>

SetNext == SetReturn \/ AddList \/ AddConstraints \/ ClearSet \/ DecideSet

SpecSet == SetInit /\ [][SetNext]_vars

(***************************************************************************)
(* mergeConstraints                                                        *)
(***************************************************************************)
MaxMerge == 2

MergeJointMsgs ==
    { [joint_name |-> n, position |-> p, tolerance_above |-> 1, tolerance_below |-> 0,
       weight |-> 2] : n \in {"j_cont", "j_rev"}, p \in {0, 1} }

\* the position, orientation and visibility lists of the messages merged
MergeOtherLists ==
    { [p |-> <<>>, o |-> <<>>, v |-> <<>>] }
    \cup { [p |-> <<m>>, o |-> <<>>, v |-> <<>>] :
               m \in { x \in SetPositionMsgs : x.constraint_region_shape.type = "sphere" } }
    \cup { [p |-> <<m>>, o |-> <<n>>, v |-> <<w>>] :
               m \in { x \in SetPositionMsgs : x.constraint_region_shape.type = "unknown" },
               n \in { x \in SetOrientationMsgs : x.link_name = "link_a" },
               w \in { x \in SetVisibilityMsgs : x.target_radius = 2 } }

MergeInputs ==
    { [joint_constraints |-> j, position_constraints |-> r.p,
       orientation_constraints |-> r.o, visibility_constraints |-> r.v] :
         j \in ListsUpTo(MergeJointMsgs, MaxMerge), r \in MergeOtherLists }

\* the inner loop of lines 699-704 over the joint constraints in list from j on
RECURSIVE KeepLoop(_, _, _)
KeepLoop(list, joint_name, j) ==
    IF j <= Len(list)
    THEN IF joint_name = list[j].joint_name THEN FALSE
         ELSE KeepLoop(list, joint_name, j + 1)
    ELSE TRUE

\* a loop that looks for the name in the merged list r
RECURSIVE MergeJointLoop_AgainstResult(_, _, _, _)
MergeJointLoop_AgainstResult(a, b, r, i) ==
    IF i <= Len(b.joint_constraints)
    THEN LET keep == KeepLoop(r.joint_constraints, b.joint_constraints[i].joint_name, 1)
         IN  MergeJointLoop_AgainstResult(a, b,
                 IF keep THEN [r EXCEPT !.joint_constraints =
                                           Append(@, b.joint_constraints[i])]
                 ELSE r, i + 1)
    ELSE r

\* the loop of lines 696-707 from element i of second (b) on; a is first
RECURSIVE MergeJointLoop(_, _, _, _)
MergeJointLoop(a, b, r, i) ==
    IF i <= Len(b.joint_constraints)
    THEN LET keep == KeepLoop(a.joint_constraints, b.joint_constraints[i].joint_name, 1)
         IN  MergeJointLoop(a, b,
                 IF keep THEN [r EXCEPT !.joint_constraints =
                                           Append(@, b.joint_constraints[i])]
                 ELSE r, i + 1)
    ELSE r

\* a push_back loop of lines 710-717 from element i of src on
RECURSIVE PushBackLoop(_, _, _)
PushBackLoop(dst, src, i) ==
    IF i <= Len(src) THEN PushBackLoop(Append(dst, src[i]), src, i + 1) ELSE dst

mergeConstraints(a, b) ==
    LET r1 == MergeJointLoop(a, b, a, 1)
    IN  [r1 EXCEPT
           !.position_constraints = PushBackLoop(@, b.position_constraints, 1),
           !.orientation_constraints = PushBackLoop(@, b.orientation_constraints, 1),
           !.visibility_constraints = PushBackLoop(@, b.visibility_constraints, 1)]

MergeInit ==
    /\ ObjInit /\ NoSet /\ NoThreads
    /\ first \in MergeInputs
    /\ second \in MergeInputs

\* the caller calls mergeConstraints(first, second)
Merge ==
    /\ CallerReady
    /\ ret' = [op |-> "merge", r |-> mergeConstraints(first, second)]
    /\ UNCHANGED <<objVars, setVars, mergeVars, thr>>

\* the caller calls mergeConstraints(first, first)
MergeWithItself ==
    /\ CallerReady
    /\ ret' = [op |-> "mergeSelf", r |-> mergeConstraints(first, first)]
    /\ UNCHANGED <<objVars, setVars, mergeVars, thr>>

MergeReturn ==
    /\ ret.op # "idle"
    /\ ret' = Idle
    /\ UNCHANGED <<objVars, setVars, mergeVars, thr>>

MergeNext == Merge \/ MergeWithItself \/ MergeReturn

SpecMerge == MergeInit /\ [][MergeNext]_vars

(***************************************************************************)
(* Threads calling decide on one VisibilityConstraint.  The calls on the    *)
(* collision world (lines 563, 564, 571) are not synchronised; each is      *)
(* taken as one step and the steps of the threads interleave freely.        *)
(***************************************************************************)
Threads == {"t1", "t2"}

ConcStates == { s \in SetStates : "link_a" \in DOMAIN s.links }

IdleThread == [pc |-> "idle"]

\* the other threads that are between their clearObjects and their
\* checkRobotCollision have had the world written under them
Disturb(t, th) ==
    [u \in Threads |->
        IF u # t /\ th[u].pc \in {"add", "check"} THEN [th[u] EXCEPT !.dirty = TRUE]
        ELSE th[u]]

ConcInit ==
    /\ kc \in { ConstraintUse(Construct("visibility"), msg) : msg \in SetVisibilityMsgs }
    /\ last = NoCall
    /\ ret = Idle
    /\ NoSet /\ NoMerge
    /\ thr = [t \in Threads |-> IdleThread]

\* a thread enters decide(state): lines 540-560, which only read
ThreadEnter ==
    \E t \in Threads : \E state \in ConcStates :
        /\ thr[t].pc = "idle"
        /\ thr' = [thr EXCEPT ![t] =
                     IF kc.target_radius_ <= EPSILON
                     THEN [pc |-> "done", state |-> state, out |-> <<TRUE, 0>>,
                           tested |-> FALSE, dirty |-> FALSE]
                     ELSE IF ViewAngleCheckFails(kc, state)
                     THEN [pc |-> "done", state |-> state, out |-> <<FALSE, 0>>,
                           tested |-> FALSE, dirty |-> FALSE]
                     ELSE [pc |-> "clear", state |-> state,
                           m |-> getVisibilityCone(kc, state), dirty |-> FALSE]]
        /\ UNCHANGED <<kc, last, ret, setVars, mergeVars>>

\* line 563
ThreadClearObjects ==
    \E t \in Threads :
        /\ thr[t].pc = "clear"
        /\ kc' = DecideClearStep(kc)
        /\ thr' = [Disturb(t, thr) EXCEPT ![t].pc = "add"]
        /\ UNCHANGED <<last, ret, setVars, mergeVars>>

\* line 564
ThreadAddObject ==
    \E t \in Threads :
        /\ thr[t].pc = "add"
        /\ kc' = DecideAddStep(kc, thr[t].m)
        /\ thr' = [Disturb(t, thr) EXCEPT ![t].pc = "check"]
        /\ UNCHANGED <<last, ret, setVars, mergeVars>>

\* lines 567-580: the test runs against the world as it is now
ThreadCheckRobotCollision ==
    \E t \in Threads :
        /\ thr[t].pc = "check"
        /\ thr' = [thr EXCEPT ![t] =
                     [pc |-> "done", state |-> thr[t].state,
                      out |-> DecideCheckStep(kc, thr[t].state),
                      tested |-> TRUE, seen |-> kc.cw_, own |-> thr[t].m,
                      dirty |-> thr[t].dirty]]
        /\ UNCHANGED <<kc, last, ret, setVars, mergeVars>>

\* the thread's caller takes the pair returned
ThreadReturn ==
    \E t \in Threads :
        /\ thr[t].pc = "done"
        /\ thr' = [thr EXCEPT ![t] = IdleThread]
        /\ UNCHANGED <<kc, last, ret, setVars, mergeVars>>

ConcNext ==
    \/ ThreadEnter
    \/ ThreadClearObjects
    \/ ThreadAddObject
    \/ ThreadCheckRobotCollision
    \/ ThreadReturn

SpecConc == ConcInit /\ [][ConcNext]_vars

(***************************************************************************)
(* C1                                                                      *)
(***************************************************************************)
\* current - target brought into (-pi, pi]
C1_WrappedDifference(current, target) ==
    CHOOSE d \in (1 - SIMD_PI) .. SIMD_PI : (d - (current - target)) % SIMD_2_PI = 0

C1_IsJointDecision ==
    /\ ret.op = "decide"
    /\ kc.kind = "joint"
    /\ JointEnabled(kc)
    /\ getJointState(ret.arg, kc.joint_model_.name) # NULL

\* C1: an enabled JointConstraint on a state that holds the joint is satisfied
\* exactly when the signed difference d lies in [-tolerance_below, tolerance_above],
\* where d is current - target wrapped into (-pi, pi] for a continuous joint and
\* current - target for any other joint.
C1_SatisfiedIffSignedDifferenceWithin ==
    C1_IsJointDecision =>
        LET current == getJointState(ret.arg, kc.joint_model_.name).value
            d == IF kc.joint_is_continuous_
                 THEN C1_WrappedDifference(current, kc.joint_position_)
                 ELSE current - kc.joint_position_
        IN  ret.out[1] = (-kc.joint_tolerance_below_ <= d /\ d <= kc.joint_tolerance_above_)

(***************************************************************************)
(* C2                                                                      *)
(***************************************************************************)
C2_Disabled == last.op = "clear" \/ (last.op = "use" /\ ~last.out)

C5_IsOrientationDecision ==
    /\ ret.op = "decide"
    /\ kc.kind = "orientation"
    /\ OrientationEnabled(kc)
    /\ getLinkState(ret.arg, kc.link_model_.name) # NULL

C5_Error == OrientationError(kc, ret.arg, getLinkState(ret.arg, kc.link_model_.name))

\* C5: use() stores the absolute values of the three tolerances, and an enabled
\* OrientationConstraint is satisfied exactly when |roll|, |pitch| and |yaw| are
\* strictly below them; with three tolerances of 0 it is never satisfied.
C5_StrictTolerances ==
    /\ (ret.op = "use" /\ kc.kind = "orientation") =>
           /\ kc.absolute_roll_tolerance_ = Abs(ret.msg.absolute_roll_tolerance)
           /\ kc.absolute_pitch_tolerance_ = Abs(ret.msg.absolute_pitch_tolerance)
           /\ kc.absolute_yaw_tolerance_ = Abs(ret.msg.absolute_yaw_tolerance)
    /\ C5_IsOrientationDecision =>
           /\ ret.out[1] = (/\ Abs(C5_Error[3]) < kc.absolute_roll_tolerance_
                            /\ Abs(C5_Error[2]) < kc.absolute_pitch_tolerance_
                            /\ Abs(C5_Error[1]) < kc.absolute_yaw_tolerance_)
           /\ (/\ kc.absolute_roll_tolerance_ = 0
               /\ kc.absolute_pitch_tolerance_ = 0
               /\ kc.absolute_yaw_tolerance_ = 0) => ~ret.out[1]

\* zero tolerances, zero rotation error, not satisfied
C5_Witness ==
    /\ C5_IsOrientationDecision
    /\ kc.absolute_roll_tolerance_ = 0
    /\ kc.absolute_pitch_tolerance_ = 0
    /\ kc.absolute_yaw_tolerance_ = 0
    /\ kc.desired_rotation_matrix_ # RotI
    /\ C5_Error = <<0, 0, 0>>
    /\ ret.out = <<FALSE, 0>>

(***************************************************************************)
(* C6                                                                      *)
(***************************************************************************)
\* the angle between the direction sensor -> target and the target's z axis
C6_ViewAngle(c, state) ==
    Acos(VecSub(TargetPose(c, state).o, SensorPose(c, state).o),
         getColumn(TargetPose(c, state).b, 3))

C6_HasViewAngle(c, state) == TargetPose(c, state).o # SensorPose(c, state).o

C6_ConeWorld(c, state) == <<[id |-> "cone", shape |-> getVisibilityCone(c, state)]>>

\* C6: a decide call on an enabled VisibilityConstraint with max_view_angle <= 0
\* puts the cone of the state into the collision world and returns what the
\* collision test gives; with max_view_angle > 0 and a view angle above it, it
\* returns (false, 0) and leaves the collision world as it was.
C6_ViewAngleCheck ==
    [][(ret'.op = "decide" /\ kc.kind = "visibility" /\ VisibilityEnabled(kc)) =>
          IF kc.max_view_angle_ <= 0
          THEN /\ kc'.cw_ = C6_ConeWorld(kc, ret'.arg)
               /\ ret'.out = VisibilityResult(checkRobotCollision(kc'.cw_, ret'.arg))
          ELSE (/\ C6_HasViewAngle(kc, ret'.arg)
                /\ C6_ViewAngle(kc, ret'.arg) > kc.max_view_angle_)
               => (ret'.out = <<FALSE, 0>> /\ kc'.cw_ = kc.cw_)]_vars

\* no limit on the view angle, a view angle of a quarter turn, and a collision
C6_Witness ==
    /\ ret.op = "decide"
    /\ kc.kind = "visibility"
    /\ VisibilityEnabled(kc)
    /\ kc.max_view_angle_ <= 0
    /\ C6_HasViewAngle(kc, ret.arg)
    /\ C6_ViewAngle(kc, ret.arg) = SIMD_HALF_PI
    /\ ~ret.out[1]
    /\ ret.out[2] > 0

(***************************************************************************)
(* C3                                                                      *)
(***************************************************************************)
RECURSIVE C3_SumCosts(_)
C3_SumCosts(rs) ==
    IF rs = <<>> THEN 0 ELSE rs[Len(rs)][2] + C3_SumCosts(SubSeq(rs, 1, Len(rs) - 1))

\* C3: KinematicConstraintSet::decide calls decide on every constraint held and
\* returns the AND of the satisfied flags and the sum of all the costs, also the
\* costs of an unsatisfied constraint and of those after it; (true, 0) when empty.
C3_AndOfFlagsSumOfCosts ==
    ret.op = "decide" =>
        /\ Len(ret.rs) = Len(kce_)
        /\ \A i \in 1 .. Len(kce_) : ret.rs[i] = ConstraintDecide(kce_[i], ret.arg).out
        /\ ret.out[1] = (\A i \in 1 .. Len(ret.rs) : ret.rs[i][1])
        /\ ret.out[2] = C3_SumCosts(ret.rs)
        /\ kce_ = <<>> => ret.out = <<TRUE, 0>>

\* an unsatisfied first constraint with a cost, and a cost after it
C3_Witness ==
    /\ ret.op = "decide"
    /\ Len(ret.rs) = 2
    /\ ~ret.rs[1][1] /\ ret.rs[1][2] > 0
    /\ ret.rs[2][1] /\ ret.rs[2][2] > 0
    /\ ret.out = <<FALSE, ret.rs[1][2] + ret.rs[2][2]>>

(***************************************************************************)
(* C7                                                                      *)
(***************************************************************************)
C7_KindOf(msg) ==
    CASE "joint_name" \in DOMAIN msg -> "joint"
      [] "constraint_region_shape" \in DOMAIN msg -> "position"
      [] "absolute_yaw_tolerance" \in DOMAIN msg -> "orientation"
      [] "target_radius" \in DOMAIN msg -> "visibility"

\* the specifications of an add call in the order joint, position, orientation,
\* visibility
C7_Given(r) ==
    IF r.op = "addList" THEN r.list
    ELSE r.c.joint_constraints \o r.c.position_constraints
         \o r.c.orientation_constraints \o r.c.visibility_constraints

C7_OfKind(msgs, kind) == LET Test(m) == C7_KindOf(m) = kind IN SelectSeq(msgs, Test)

\* C7: an add call with n specifications appends n constraints, each a new
\* constraint of its kind configured with its specification, in list order (joint,
\* position, orientation, visibility for a Constraints message), appends the n
\* specification records, and returns the AND of the use() results; a constraint
\* whose use() failed is kept and decide on it returns (true, 0).
C7_AddKeepsEveryConstraint ==
    [][ret'.op \in {"addList", "add"} =>
          LET msgs == C7_Given(ret')
              n    == Len(msgs)
              new  == SubSeq(kce_', Len(kce_) + 1, Len(kce_'))
          IN  /\ Len(kce_') = Len(kce_) + n
              /\ SubSeq(kce_', 1, Len(kce_)) = kce_
              /\ \A i \in 1 .. n :
                    new[i] = ConstraintUse(Construct(C7_KindOf(msgs[i])), msgs[i])
              /\ jc_' = jc_ \o C7_OfKind(msgs, "joint")
              /\ pc_' = pc_ \o C7_OfKind(msgs, "position")
              /\ oc_' = oc_ \o C7_OfKind(msgs, "orientation")
              /\ vc_' = vc_ \o C7_OfKind(msgs, "visibility")
              /\ ret'.ok = (\A i \in 1 .. n : ConstraintEnabled(new[i]))
              /\ \A i \in 1 .. n : \A st \in SetStates :
                    ~ConstraintEnabled(new[i])
                        => ConstraintDecide(new[i], st).out = <<TRUE, 0>>]_vars

\* add(Constraints) returned false: the joint use() failed, the constraint is
\* held, and the constraint added after it is held and enabled
C7_Witness ==
    /\ ret.op = "add"
    /\ ~ret.ok
    /\ Len(kce_) = 2
    /\ kce_[1].kind = "joint" /\ ~ConstraintEnabled(kce_[1])
    /\ kce_[2].kind # "joint" /\ ConstraintEnabled(kce_[2])
    /\ Len(jc_) = 1

(***************************************************************************)
(* C8                                                                      *)
(***************************************************************************)
\* an enabled joint, position or orientation constraint whose joint or link the
\* state does not hold
C8_NameAbsent(c, state) ==
    CASE c.kind = "joint" ->
             JointEnabled(c) /\ c.joint_model_.name \notin DOMAIN state.joints
      [] c.kind = "position" ->
             PositionEnabled(c) /\ c.link_model_.name \notin DOMAIN state.links
      [] c.kind = "orientation" ->
             OrientationEnabled(c) /\ c.link_model_.name \notin DOMAIN state.links
      [] OTHER -> FALSE

RECURSIVE C8_CostOfOthers(_, _, _)
C8_CostOfOthers(kce, state, rs) ==
    IF rs = <<>> THEN 0
    ELSE (IF C8_NameAbsent(kce[Len(rs)], state) THEN 0 ELSE rs[Len(rs)][2])
         + C8_CostOfOthers(kce, state, SubSeq(rs, 1, Len(rs) - 1))

\* C8: every decide call of the set's loop returns a (bool, cost) pair; an enabled
\* joint, position or orientation constraint whose joint or link is not in the
\* state returns (false, 0), which makes the set unsatisfied and leaves the set's
\* cost the sum of the costs of the other constraints.
C8_AbsentNameFailsAtNoCost ==
    ret.op = "decide" =>
        /\ \A i \in 1 .. Len(ret.rs) : ret.rs[i][1] \in BOOLEAN /\ ret.rs[i][2] \in Nat
        /\ \A i \in 1 .. Len(kce_) :
              C8_NameAbsent(kce_[i], ret.arg) => ret.rs[i] = <<FALSE, 0>>
        /\ (\E i \in 1 .. Len(kce_) : C8_NameAbsent(kce_[i], ret.arg)) =>
              /\ ~ret.out[1]
              /\ ret.out[2] = C8_CostOfOthers(kce_, ret.arg, ret.rs)

\* the joint is not in the state, the link is; the set's cost is the other cost
C8_Witness ==
    /\ ret.op = "decide"
    /\ Len(kce_) = 2
    /\ kce_[1].kind = "joint"
    /\ C8_NameAbsent(kce_[1], ret.arg)
    /\ ret.rs[2][2] > 0
    /\ ret.out = <<FALSE, ret.rs[2][2]>>

(***************************************************************************)
(* C9                                                                      *)
(***************************************************************************)
\* the configured fields of a constraint: all but the private collision world
C9_Configured(c) == IF c.kind = "visibility" THEN [c EXCEPT !.cw_ = <<>>] ELSE c

C9_ConfiguredAll(kce) == [i \in 1 .. Len(kce) |-> C9_Configured(kce[i])]

\* C9: a decide call on the set leaves the configured fields of every constraint
\* and the specification records unchanged (it writes only the collision world of
\* a VisibilityConstraint), and what it returns is fixed by the configured fields
\* and the state: it does not depend on the decide calls made before.
C9_DecideReadsOnly ==
    [][ret'.op = "decide" =>
          /\ C9_ConfiguredAll(kce_') = C9_ConfiguredAll(kce_)
          /\ <<jc_', pc_', oc_', vc_'>> = <<jc_, pc_, oc_, vc_>>
          /\ ret'.out = SetDecideAll(C9_ConfiguredAll(kce_), ret'.arg).out]_vars

\* a decide call that has written the collision world of a visibility constraint
\* beside a joint constraint
C9_Witness ==
    /\ ret.op = "decide"
    /\ Len(kce_) = 2
    /\ kce_[1].kind = "joint" /\ JointEnabled(kce_[1])
    /\ kce_[2].kind = "visibility" /\ kce_[2].cw_ # <<>>
    /\ ret.out[2] > 0

(***************************************************************************)
(* C4                                                                      *)
(***************************************************************************)
C4_JointNames(list) == { list[j].joint_name : j \in 1 .. Len(list) }

\* the joint constraints of b whose joint_name no joint constraint of a has
C4_NotInFirst(a, b) ==
    LET Test(m) == m.joint_name \notin C4_JointNames(a.joint_constraints)
    IN  SelectSeq(b.joint_constraints, Test)

\* C4: mergeConstraints(first, second) returns first's four lists in order,
\* followed in the joint list by the joint constraints of second, in order, whose
\* joint_name is the joint_name of no joint constraint of first, and in the other
\* three lists by every entry of second in order; first and second are unchanged.
\* The same holds when the caller passes one message as both arguments.
C4_MergeKeepsFirst ==
    [][ret'.op \in {"merge", "mergeSelf"} =>
          LET a == first
              b == IF ret'.op = "merge" THEN second ELSE first
          IN  /\ ret'.r.joint_constraints = a.joint_constraints \o C4_NotInFirst(a, b)
              /\ ret'.r.position_constraints
                    = a.position_constraints \o b.position_constraints
              /\ ret'.r.orientation_constraints
                    = a.orientation_constraints \o b.orientation_constraints
              /\ ret'.r.visibility_constraints
                    = a.visibility_constraints \o b.visibility_constraints
              /\ first' = first
              /\ second' = second]_vars

\* a name of first is in second with another target: first's entry is the one in
\* the result; the equal position constraints of first and second are both kept
C4_Witness ==
    /\ ret.op = "merge"
    /\ Len(first.joint_constraints) = 1
    /\ Len(second.joint_constraints) = 2
    /\ second.joint_constraints[1].joint_name = first.joint_constraints[1].joint_name
    /\ second.joint_constraints[1] # first.joint_constraints[1]
    /\ second.joint_constraints[2].joint_name # first.joint_constraints[1].joint_name
    /\ ret.r.joint_constraints = <<first.joint_constraints[1], second.joint_constraints[2]>>
    /\ Len(first.position_constraints) = 1
    /\ first.position_constraints = second.position_constraints
    /\ Len(ret.r.position_constraints) = 2

(***************************************************************************)
(* C10                                                                     *)
(***************************************************************************)
\* what decide(state) returns when no other thread is inside decide
C10_Alone(state) == VisibilityDecide([kc EXCEPT !.cw_ = <<>>], state).out

\* C10: decide on a VisibilityConstraint shared by two threads returns what it
\* returns when run alone unless another thread's clearObjects or addObject ran
\* between the thread's own clearObjects and its checkRobotCollision; when one
\* did, the test can run against a world with the other thread's cone or with no
\* cone and the result can differ (the witness).
C10_DiffersOnlyWhenInterleaved ==
    \A t \in Threads :
        (thr[t].pc = "done" /\ thr[t].out # C10_Alone(thr[t].state)) =>
            /\ thr[t].tested
            /\ thr[t].dirty
            /\ thr[t].seen # <<[id |-> "cone", shape |-> thr[t].own]>>

\* a thread whose test ran against the other thread's cone and returned another
\* pair than it returns alone
C10_Witness ==
    \E t \in Threads :
        /\ thr[t].pc = "done"
        /\ thr[t].tested
        /\ thr[t].out # C10_Alone(thr[t].state)
        /\ \E i \in 1 .. Len(thr[t].seen) : thr[t].seen[i].shape # thr[t].own

(***************************************************************************)
(* C11                                                                     *)
(***************************************************************************)
\* C11: after a use() call the weight of the constraint is the default epsilon
\* when the call was given a non-positive weight and the given weight when it was
\* given a positive one, and the weight is strictly positive.  Stated for the
\* calls that return true, after which the weight enters the cost.
C11_WeightIsInputOrDefault ==
    (ret.op = "use" /\ ret.ok) =>
        /\ kc.constraint_weight_ > 0
        /\ kc.constraint_weight_ =
              IF ret.msg.weight <= 0 THEN EPSILON ELSE ret.msg.weight

(***************************************************************************)
(* C12                                                                     *)
(***************************************************************************)
\* a PositionConstraint::use call whose link name is not resolved or whose region
\* shape cannot be built
C12_UnusableSpecification ==
    /\ ret.op = "use"
    /\ kc.kind = "position"
    /\ \/ getLinkModel(ret.msg.link_name) = NULL
       \/ constructShapeFromMsg(ret.msg.constraint_region_shape) = NULL

\* C12: a PositionConstraint::use call whose link name cannot be resolved or
\* whose region shape cannot be built returns false and leaves the constraint
\* disabled: enabled() is false and decide returns (true, 0), whatever the use()
\* calls made on the instance before.
C12_UnusableSpecificationDisables ==
    C12_UnusableSpecification =>
        /\ ~ret.ok
        /\ ~PositionEnabled(kc)
        /\ \A state \in States : PositionDecide(kc, state) = <<TRUE, 0>>

(***************************************************************************)
(* C13                                                                     *)
(***************************************************************************)
C13_IsVisibilityUse == ret.op = "use" /\ kc.kind = "visibility"

\* C13: VisibilityConstraint::use stores |target_radius| and returns true exactly
\* when the stored radius is > epsilon, and enabled() is true in the same case: an
\* input with |r| <= epsilon disables, a negative input with |r| > epsilon
\* enables; cone_sides below 3 is stored as 3 and exactly cone_sides boundary
\* points are generated; clear() disables.
C13_RadiusDecidesEnabled ==
    /\ C13_IsVisibilityUse =>
          LET r == ret.msg.target_radius
              n == ret.msg.cone_sides
          IN  /\ kc.target_radius_ = Abs(r)
              /\ ret.ok = (kc.target_radius_ > EPSILON)
              /\ VisibilityEnabled(kc) = ret.ok
              /\ Abs(r) <= EPSILON => ~VisibilityEnabled(kc)
              /\ (r < 0 /\ Abs(r) > EPSILON) => VisibilityEnabled(kc)
              /\ kc.cone_sides_ = IF n < 3 THEN 3 ELSE n
              /\ Len(kc.points_) = kc.cone_sides_
              /\ \A i \in 1 .. Len(kc.points_) :
                    /\ kc.points_[i].i = i - 1
                    /\ kc.points_[i].n = kc.cone_sides_
                    /\ kc.points_[i].r = kc.target_radius_
    /\ (ret.op = "clear" /\ kc.kind = "visibility") => ~VisibilityEnabled(kc)

\* a negative radius and two sides given: enabled, three sides, three points
C13_Witness ==
    /\ C13_IsVisibilityUse
    /\ ret.msg.target_radius < -EPSILON
    /\ ret.msg.cone_sides < 3
    /\ ret.ok
    /\ VisibilityEnabled(kc)
    /\ kc.cone_sides_ = 3
    /\ Len(kc.points_) = 3

(***************************************************************************)
(* C14                                                                     *)
(***************************************************************************)
\* the values of a sequence
C14_Range(seq) == { seq[j] : j \in 1 .. Len(seq) }

\* triangle k of a mesh, slots 3k, 3k + 1, 3k + 2 of its index array
C14_Triangle(m, k) == <<m.triangles[3 * k + 1], m.triangles[3 * k + 2], m.triangles[3 * k + 3]>>

C14_NextPoint(k, N) == IF k < N - 1 THEN k + 3 ELSE 2

\* a decide call that has built the cone and put it in the collision world
C14_HasCone ==
    /\ ret.op = "decide"
    /\ kc.kind = "visibility"
    /\ VisibilityEnabled(kc)
    /\ ~ViewAngleCheckFails(kc, ret.arg)

\* C14: the visibility cone of a constraint with N = cone_sides >= 3 has N + 2
\* vertices (the sensor origin, the target centre, the N boundary points) and 2N
\* triangles; each of the 6N index slots is written exactly once and every index
\* is < N + 2; side triangle k is (k + 2, 0, next) and base triangle N + k is
\* (k + 2, 1, next), next = k + 3 for k < N - 1 and 2 for k = N - 1.
C14_ConeMesh ==
    C14_HasCone =>
        LET m == kc.cw_[1].shape
            N == kc.cone_sides_
            w == ConeWrites(N)
        IN  /\ Len(kc.cw_) = 1
            /\ N >= 3
            /\ m.vertex_count = N + 2
            /\ Len(m.vertices) = N + 2
            /\ m.triangle_count = 2 * N
            /\ Len(m.triangles) = 6 * N
            /\ Len(w) = 6 * N
            /\ C14_Range(w) = 0 .. 6 * N - 1
            /\ \A j \in 1 .. 6 * N : m.triangles[j] \in 0 .. N + 1
            /\ \A k \in 0 .. N - 1 :
                  /\ C14_Triangle(m, k) = <<k + 2, 0, C14_NextPoint(k, N)>>
                  /\ C14_Triangle(m, N + k) = <<k + 2, 1, C14_NextPoint(k, N)>>
            /\ m.vertices[1] = SensorPose(kc, ret.arg).o
            /\ m.vertices[2] = TargetPose(kc, ret.arg).o
            /\ \A i \in 1 .. N : m.vertices[i + 2].i = i - 1

\* a cone with more than four sides
C14_Witness ==
    /\ C14_HasCone
    /\ kc.cone_sides_ = MaxSides
    /\ kc.cw_[1].shape.triangle_count = 2 * MaxSides
    /\ C14_Triangle(kc.cw_[1].shape, MaxSides - 1) = <<MaxSides + 1, 0, 2>>

(***************************************************************************)
(* C15                                                                     *)
(***************************************************************************)
\* the constraints of one kind held by the set, in the order held, without
\* their collision worlds
C15_Held(kind) ==
    LET Test(c) == c.kind = kind IN C9_ConfiguredAll(SelectSeq(kce_, Test))

\* the constraints that the specification records of one kind configure, in order
C15_Recorded(kind, records) ==
    [i \in 1 .. Len(records) |-> ConstraintUse(Construct(kind), records[i])]

\* C15: after any add and clear calls the set holds as many constraints as it
\* has joint, position, orientation and visibility specification records; the
\* constraints of each kind are, in order, the ones the records of that kind
\* configure; after clear() the constraints and the four record lists are empty
\* and decide returns (true, 0).
C15_ConstraintsMatchRecords ==
    /\ Len(kce_) = Len(jc_) + Len(pc_) + Len(oc_) + Len(vc_)
    /\ C15_Held("joint") = C15_Recorded("joint", jc_)
    /\ C15_Held("position") = C15_Recorded("position", pc_)
    /\ C15_Held("orientation") = C15_Recorded("orientation", oc_)
    /\ C15_Held("visibility") = C15_Recorded("visibility", vc_)
    /\ ret.op = "clear" =>
          /\ kce_ = <<>> /\ jc_ = <<>> /\ pc_ = <<>> /\ oc_ = <<>> /\ vc_ = <<>>
          /\ \A state \in SetStates : SetDecideAll(kce_, state).out = <<TRUE, 0>>

\* a visibility constraint added before a joint constraint: held in that order,
\* one record of each
C15_Witness ==
    /\ ret.op = "addList"
    /\ Len(kce_) = 2
    /\ kce_[1].kind = "visibility"
    /\ kce_[2].kind = "joint"
    /\ Len(jc_) = 1 /\ Len(vc_) = 1
    /\ pc_ = <<>> /\ oc_ = <<>>

=============================================================================
